---- MODULE Spec2Model ----
(***************************************************************************)
(* Model of secureboxed_api/main.py: a FastAPI gateway that logs Solana    *)
(* public keys in, issues JWT bearer tokens, and stores AES-GCM encrypted  *)
(* files on a flat remote drive under "encrypted_<public_key>_<filename>". *)
(*                                                                         *)
(* Strings are sequences of characters.  The character "encrypted" stands  *)
(* for the literal word of the key prefix; it is no base58 character and   *)
(* therefore never part of a public key.                                   *)
(***************************************************************************)
EXTENDS Integers, Sequences, FiniteSets, TLC

VARIABLES
    users_collection,   \* db.users: public_key string -> number of documents
    store,              \* the remote drive: file name -> stored bytes
    uploader,           \* history: file name -> the request that stored it
    files,              \* the working directory: file name -> bytes
    KEY,                \* the AES key of this process lifetime
    now,                \* the clock, in ticks
    issued,             \* tokens that login has handed out
    task,               \* the request each event-loop task is serving
    event,              \* what the last step did: the response it sent, if any
    ledger              \* history: (identity, filename) -> last upload or delete

vars == <<users_collection, store, uploader, files, KEY, now, issued, task,
          event, ledger>>

------------------------------------------------------------------------------
(* Bounds and input samples *)

MaxTasks == 2          \* concurrently served requests
MaxObjects == 2        \* objects on the remote drive
MaxLocal == 1          \* files left in the working directory
MaxRestarts == 1       \* process restarts
MaxTokens == 2         \* tokens handed out
MaxSessions == 1       \* tokens handed out while the clock runs
MaxNonce == 1          \* distinct os.urandom results
MaxSkew == 2           \* clock instants sampled on each side of an expiry
TicksPerSecond == 2    \* clock resolution
MaxKeyLen == 2         \* length of the identities and filenames enumerated

Tasks == 1..MaxTasks

None == "None"

IdA == <<"a">>
IdB == <<"b">>
IdBad == <<"0">>
Base58 == {"a", "b"}
Pubkeys == {IdA, IdB}
Identities == {IdA, IdB, IdBad}

NameX == <<"x">>
NameBX == <<"b", "_", "x">>
Filenames == {NameX, NameBX}

Payloads == {<<1>>, <<2>>}

\* the non-empty strings over an alphabet, up to a length
Strings(alphabet, n) == UNION {[1..k -> alphabet] : k \in 1..n}

\* identities as Pubkey prints them (no underscore in base58), and filenames
\* made of an identity character and the underscore
Owners == Strings(Base58, MaxKeyLen)
Names == Strings({"a", "_"}, MaxKeyLen)

------------------------------------------------------------------------------
(* Python string operations *)

EndsWith(s, suffix) ==
    /\ Len(suffix) <= Len(s)
    /\ SubSeq(s, Len(s) - Len(suffix) + 1, Len(s)) = suffix

Contains(s, sub) ==
    \E i \in 0..(Len(s) - Len(sub)) : SubSeq(s, i + 1, i + Len(sub)) = sub

\* s[:n] and s[n:]
Prefix(s, n) == SubSeq(s, 1, IF n < Len(s) THEN n ELSE Len(s))
Suffix(s, n) == SubSeq(s, n + 1, Len(s))

\* a function with one more / one less point
Put(f, k, v) == [x \in DOMAIN f \cup {k} |-> IF x = k THEN v ELSE f[x]]
Remove(f, k) == [x \in DOMAIN f \ {k} |-> f[x]]
Empty == [x \in {} |-> None]

------------------------------------------------------------------------------
(* solders.Pubkey *)

\* Pubkey.from_string accepts base58 text only
IsPubkey(s) == Len(s) > 0 /\ \A i \in 1..Len(s) : s[i] \in Base58

------------------------------------------------------------------------------
(* JWT *)

JWT_SECRET == "JWT_SECRET"
JWT_EXPIRATION_MINUTES == 30

TicksPerMinute == 60 * TicksPerSecond
ExpiryTicks == JWT_EXPIRATION_MINUTES * TicksPerMinute

\* jwt.encode writes a datetime claim as whole seconds since the epoch
Timegm(t) == t \div TicksPerSecond

Token(sub, exp, sig) ==
    [present |-> TRUE, wellformed |-> TRUE, has_sub |-> TRUE,
     sub |-> sub, exp |-> exp, sig |-> sig]

create_access_token(sub, t) ==
    LET expire == t + ExpiryTicks
    IN  Token(sub, Timegm(expire), JWT_SECRET)

\* faulty variant: a token still passes at the very instant of its expiry
JwtExpired_Strict(exp, t) == exp * TicksPerSecond < t

\* ExpiredSignatureError: exp <= now, with now as fractional seconds
JwtExpired(exp, t) == exp * TicksPerSecond <= t

\* jwt.decode: the payload, or ok = FALSE for any PyJWTError
PyJWTError == [ok |-> FALSE, has_sub |-> FALSE, sub |-> <<>>]

\* faulty variant: the expiry claim is not verified
jwt_decode_NoExpiry(token, t) ==
    IF ~token.wellformed THEN PyJWTError
    ELSE IF token.sig # JWT_SECRET THEN PyJWTError
    ELSE [ok |-> TRUE, has_sub |-> token.has_sub, sub |-> token.sub]

jwt_decode(token, t) ==
    IF ~token.wellformed THEN PyJWTError
    ELSE IF token.sig # JWT_SECRET THEN PyJWTError
    ELSE IF JwtExpired(token.exp, t) THEN PyJWTError
    ELSE [ok |-> TRUE, has_sub |-> token.has_sub, sub |-> token.sub]

------------------------------------------------------------------------------
(* AES-GCM *)

NonceLen == 12

Nonces == {[i \in 1..NonceLen |-> v] : v \in 1..MaxNonce}

Tag(key, nonce, data) == <<"tag", key, nonce, data>>

\* AESGCM(key).encrypt(nonce, data, None): ciphertext followed by the tag
aes_encrypt(key, nonce, data) ==
    [i \in 1..Len(data) |-> <<"ct", key, nonce, i, data[i]>>]
        \o <<Tag(key, nonce, data)>>

\* AESGCM(key).decrypt(nonce, data, None): the plaintext, or ok = FALSE when
\* it raises (InvalidTag, or ValueError for a short nonce)
InvalidTag == [ok |-> FALSE, data |-> <<>>]

\* faulty variant: the tag is not verified, as with an unauthenticated cipher
aes_decrypt_NoTag(key, nonce, data) ==
    IF Len(data) < 1 \/ Len(nonce) # NonceLen THEN InvalidTag
    ELSE LET body == SubSeq(data, 1, Len(data) - 1)
         IN  IF \A i \in 1..Len(body) :
                    body[i][1] = "ct" /\ body[i][2] = key /\ body[i][3] = nonce
             THEN [ok |-> TRUE, data |-> [i \in 1..Len(body) |-> body[i][5]]]
             ELSE InvalidTag

aes_decrypt(key, nonce, data) ==
    IF Len(data) < 1 \/ Len(nonce) # NonceLen THEN InvalidTag
    ELSE LET body == SubSeq(data, 1, Len(data) - 1)
             plain == [i \in 1..Len(body) |-> body[i][5]]
         IN  IF /\ \A i \in 1..Len(body) :
                      body[i] = <<"ct", key, nonce, i, plain[i]>>
                /\ data[Len(data)] = Tag(key, nonce, plain)
             THEN [ok |-> TRUE, data |-> plain]
             ELSE InvalidTag

------------------------------------------------------------------------------
(* Namespace *)

\* faulty variant: owner and filename are joined without the underscore
encrypted_filename_NoSeparator(public_key, filename) ==
    <<"encrypted", "_">> \o public_key \o filename

encrypted_filename(public_key, filename) ==
    <<"encrypted", "_">> \o public_key \o <<"_">> \o filename

\* the suffix download and delete look for
LookupSuffix(public_key, filename) == public_key \o <<"_">> \o filename

\* next((f for f in current_files if f.endswith(suffix)), None); the empty
\* string stands for None, both are false in "if not file_url"
FirstMatch(current_files, suffix) ==
    LET hits == {i \in 1..Len(current_files) : EndsWith(current_files[i], suffix)}
    IN  IF hits = {} THEN <<>>
        ELSE current_files[CHOOSE i \in hits : \A j \in hits : i <= j]

\* [f for f in all_files if f"{public_key}_" in f]
UserFiles(all_files, public_key) ==
    {f \in all_files : Contains(f, public_key \o <<"_">>)}

\* the orders in which the drive may list its files
Listings(s) ==
    {l \in [1..Cardinality(DOMAIN s) -> DOMAIN s] :
        \A i, j \in DOMAIN l : i # j => l[i] # l[j]}

------------------------------------------------------------------------------
(* Requests, responses *)

NoStr == <<>>
NoToken == [present |-> FALSE, wellformed |-> FALSE, has_sub |-> FALSE,
            sub |-> NoStr, exp |-> 0, sig |-> None]

Idle == [pc |-> "idle", op |-> None, token |-> NoToken, public_key |-> NoStr,
         filename |-> NoStr, contents |-> NoStr]

NoEvent == [task |-> 0, op |-> None, step |-> None, status |-> 0,
            detail |-> None, category |-> None, token |-> NoToken,
            public_key |-> NoStr, filename |-> NoStr, content |-> NoStr,
            listed |-> {}, target |-> NoStr]

Ev(t, op, step, status, detail, category, token, pk, filename) ==
    [NoEvent EXCEPT !.task = t, !.op = op, !.step = step, !.status = status,
                    !.detail = detail, !.category = category, !.token = token,
                    !.public_key = pk, !.filename = filename]

\* an exception no handler catches: Starlette answers 500
Unhandled(t, op, step, category, token, pk, filename) ==
    Ev(t, op, step, 500, "Internal Server Error", category, token, pk, filename)

LoginsInFlight == Cardinality({t \in Tasks : task[t].op = "login"})

ClockValues ==
    {t \in 0..(ExpiryTicks + 2 * MaxSkew) :
        t <= MaxSkew \/ t >= ExpiryTicks - MaxSkew}

Init ==
    /\ users_collection = [id \in Identities |-> 0]
    /\ store = Empty
    /\ uploader = Empty
    /\ files = Empty
    /\ KEY = 1
    /\ now = 0
    /\ issued = {}
    /\ task = [t \in Tasks |-> Idle]
    /\ event = NoEvent
    /\ ledger = Empty

------------------------------------------------------------------------------
(* POST /login *)

LoginReturn(t, public_key) ==
    LET access_token == create_access_token(public_key, now)
    IN  /\ issued' = issued \cup {[token |-> access_token, at |-> now]}
        /\ task' = [task EXCEPT ![t] = Idle]
        /\ event' = Ev(t, "login", "body", 200, "bearer", "ok", access_token,
                       public_key, NoStr)

\* line 71: find_one; an existing user goes straight to the token
LoginFind(t, public_key) ==
    /\ task[t].pc = "idle"
    /\ Cardinality(issued) + LoginsInFlight < MaxTokens
    /\ IF users_collection[public_key] > 0
       THEN LoginReturn(t, public_key)
       ELSE /\ task' = [task EXCEPT ![t] =
                          [Idle EXCEPT !.pc = "insert", !.op = "login",
                                       !.public_key = public_key]]
            /\ event' = NoEvent
            /\ UNCHANGED issued
    /\ UNCHANGED <<users_collection, store, uploader, files, KEY, now, ledger>>

\* line 75: insert_one, then the token
LoginInsert(t) ==
    /\ task[t].pc = "insert"
    /\ users_collection' =
           [users_collection EXCEPT ![task[t].public_key] = @ + 1]
    /\ LoginReturn(t, task[t].public_key)
    /\ UNCHANGED <<store, uploader, files, KEY, now, ledger>>

------------------------------------------------------------------------------
(* Depends(get_current_user) *)

Protected == {"upload", "download", "delete", "list"}

\* faulty variant: an unknown user is answered like a bad credential
AuthOutcome_Unknown401(token, t) ==
    IF ~token.present
    THEN [status |-> 401, detail |-> "Not authenticated", category |-> "Unauthorized"]
    ELSE LET payload == jwt_decode(token, t)
         IN  IF ~payload.ok \/ ~payload.has_sub
                \/ users_collection[payload.sub] = 0
             THEN [status |-> 401, detail |-> "Invalid authentication credentials",
                   category |-> "Unauthorized"]
             ELSE IF ~IsPubkey(payload.sub)
             THEN [status |-> 500, detail |-> "Internal Server Error",
                   category |-> "ValueError"]
             ELSE [status |-> 0, detail |-> None, category |-> None]

\* faulty variant: a token without subject gets a message of its own
AuthOutcome_SubjectDetail(token, t) ==
    IF ~token.present
    THEN [status |-> 401, detail |-> "Not authenticated", category |-> "Unauthorized"]
    ELSE LET payload == jwt_decode(token, t)
         IN  IF ~payload.ok
             THEN [status |-> 401, detail |-> "Invalid authentication credentials",
                   category |-> "Unauthorized"]
             ELSE IF ~payload.has_sub
             THEN [status |-> 401, detail |-> "Missing subject",
                   category |-> "Unauthorized"]
             ELSE IF users_collection[payload.sub] = 0
             THEN [status |-> 404, detail |-> "User not found",
                   category |-> "UserNotFound"]
             ELSE IF ~IsPubkey(payload.sub)
             THEN [status |-> 500, detail |-> "Internal Server Error",
                   category |-> "ValueError"]
             ELSE [status |-> 0, detail |-> None, category |-> None]

\* the outcome of oauth2_scheme and get_current_user for a token at time t
AuthOutcome(token, t) ==
    IF ~token.present
    THEN [status |-> 401, detail |-> "Not authenticated", category |-> "Unauthorized"]
    ELSE LET payload == jwt_decode(token, t)
         IN  IF ~payload.ok
             THEN [status |-> 401, detail |-> "Invalid authentication credentials",
                   category |-> "Unauthorized"]
             ELSE IF ~payload.has_sub
             THEN [status |-> 401, detail |-> "Invalid authentication credentials",
                   category |-> "Unauthorized"]
             ELSE IF users_collection[payload.sub] = 0
             THEN [status |-> 404, detail |-> "User not found",
                   category |-> "UserNotFound"]
             ELSE IF ~IsPubkey(payload.sub)
             THEN [status |-> 500, detail |-> "Internal Server Error",
                   category |-> "ValueError"]
             ELSE [status |-> 0, detail |-> None, category |-> None]

\* faulty variant: the lookup takes the user out of the collection, as
\* find_one_and_delete would
get_current_user_Consume(t, op, token, filename, contents) ==
    LET out == AuthOutcome(token, now)
        pk == token.sub
    IN  /\ task[t].pc = "idle"
        /\ op \in Protected
        /\ event' = Ev(t, op, "auth", out.status, out.detail, out.category,
                       token, pk, filename)
        /\ task' = [task EXCEPT ![t] =
                      IF out.status = 0
                      THEN [pc |-> "body", op |-> op, token |-> token,
                            public_key |-> token.sub, filename |-> filename,
                            contents |-> contents]
                      ELSE Idle]
        /\ users_collection' =
               IF out.status = 0
               THEN [users_collection EXCEPT ![pk] = @ - 1]
               ELSE users_collection
        /\ UNCHANGED <<store, uploader, files, KEY, now, issued, ledger>>

get_current_user(t, op, token, filename, contents) ==
    LET out == AuthOutcome(token, now)
        pk == token.sub
    IN  /\ task[t].pc = "idle"
        /\ op \in Protected
        /\ event' = Ev(t, op, "auth", out.status, out.detail, out.category,
                       token, pk, filename)
        /\ task' = [task EXCEPT ![t] =
                      IF out.status = 0
                      THEN [pc |-> "body", op |-> op, token |-> token,
                            public_key |-> token.sub, filename |-> filename,
                            contents |-> contents]
                      ELSE Idle]
        /\ UNCHANGED <<users_collection, store, uploader, files, KEY, now,
                       issued, ledger>>

------------------------------------------------------------------------------
(* POST /upload *)

\* the last request served for (pk, filename) that changed the drive was an upload
Uploaded(pk, filename) ==
    /\ <<pk, filename>> \in DOMAIN ledger
    /\ ledger[<<pk, filename>>].state = "uploaded"

\* faulty variant: a failed drive write is swallowed and the request answers as usual
upload_file_Swallow(t, nonce, stored) ==
    LET user == task[t].public_key
        filename == task[t].filename
        name == encrypted_filename(user, filename)
        written == Put(files, name,
                       nonce \o aes_encrypt(KEY, nonce, task[t].contents))
    IN  /\ task[t].pc = "body" /\ task[t].op = "upload"
        /\ Cardinality(DOMAIN store \cup {name}) <= MaxObjects
        /\ IF stored
           THEN /\ store' = Put(store, name, written[name])
                /\ uploader' = Put(uploader, name,
                                   [public_key |-> user, filename |-> filename,
                                    contents |-> task[t].contents])
                /\ ledger' = Put(ledger, <<user, filename>>,
                                 [state |-> "uploaded",
                                  contents |-> task[t].contents, key |-> KEY,
                                  rewritten |-> Uploaded(user, filename)])
                /\ event' = [Ev(t, "upload", "body", 200, "url", "ok",
                                task[t].token, user, filename)
                               EXCEPT !.target = name]
           ELSE /\ event' = Ev(t, "upload", "body", 200, "url",
                               "StorageUnavailable", task[t].token, user, filename)
                /\ UNCHANGED <<store, uploader, ledger>>
        /\ files' = Remove(written, name)
        /\ task' = [task EXCEPT ![t] = Idle]
        /\ UNCHANGED <<users_collection, KEY, now, issued>>

\* faulty variant: the handler gives way to other requests between writing the
\* local file and sending it, as it would with an awaited drive call
upload_file_Yield(t, nonce, stored) ==
    LET user == task[t].public_key
        filename == task[t].filename
        name == encrypted_filename(user, filename)
    IN  /\ task[t].op = "upload"
        /\ Cardinality(DOMAIN store \cup {name}) <= MaxObjects
        /\ \/ /\ task[t].pc = "body"
              /\ files' = Put(files, name,
                              nonce \o aes_encrypt(KEY, nonce, task[t].contents))
              /\ task' = [task EXCEPT ![t].pc = "written"]
              /\ event' = NoEvent
              /\ UNCHANGED <<store, uploader, ledger>>
           \/ /\ task[t].pc = "written"
              /\ IF name \in DOMAIN files
                 THEN LET sent == aes_decrypt(KEY, Prefix(files[name], NonceLen),
                                              Suffix(files[name], NonceLen)).data
                      IN  /\ store' = Put(store, name, files[name])
                          /\ uploader' = Put(uploader, name,
                                             [public_key |-> user,
                                              filename |-> filename,
                                              contents |-> sent])
                          /\ ledger' = Put(ledger, <<user, filename>>,
                                           [state |-> "uploaded", contents |-> sent,
                                            key |-> KEY,
                                            rewritten |-> Uploaded(user, filename)])
                          /\ files' = Remove(files, name)
                          /\ event' = [Ev(t, "upload", "body", 200, "url", "ok",
                                          task[t].token, user, filename)
                                         EXCEPT !.target = name]
                 ELSE /\ event' = Unhandled(t, "upload", "body",
                                            "FileNotFoundError", task[t].token,
                                            user, filename)
                      /\ UNCHANGED <<store, uploader, ledger, files>>
              /\ task' = [task EXCEPT ![t] = Idle]
        /\ UNCHANGED <<users_collection, KEY, now, issued>>

\* stored tells whether shadow_drive_client.upload_files worked
upload_file(t, nonce, stored) ==
    LET user == task[t].public_key
        filename == task[t].filename
        contents == task[t].contents
        encrypted_data == aes_encrypt(KEY, nonce, contents)
        name == encrypted_filename(user, filename)
        written == Put(files, name, nonce \o encrypted_data)
    IN  /\ task[t].pc = "body" /\ task[t].op = "upload"
        /\ Cardinality(DOMAIN store \cup {name}) <= MaxObjects
        /\ IF stored
           THEN /\ store' = Put(store, name, written[name])
                /\ uploader' = Put(uploader, name,
                                   [public_key |-> user, filename |-> filename,
                                    contents |-> contents])
                /\ files' = Remove(written, name)
                /\ ledger' = Put(ledger, <<user, filename>>,
                                 [state |-> "uploaded", contents |-> contents,
                                  key |-> KEY,
                                  rewritten |-> Uploaded(user, filename)])
                /\ event' = [Ev(t, "upload", "body", 200, "url", "ok",
                                task[t].token, user, filename)
                               EXCEPT !.target = name]
           ELSE /\ Cardinality(DOMAIN written) <= MaxLocal
                /\ files' = written
                /\ event' = Unhandled(t, "upload", "body", "StorageUnavailable",
                                      task[t].token, user, filename)
                /\ UNCHANGED <<store, uploader, ledger>>
        /\ task' = [task EXCEPT ![t] = Idle]
        /\ UNCHANGED <<users_collection, KEY, now, issued>>

------------------------------------------------------------------------------
(* GET /download/{filename} *)

\* faulty variant: a blob that does not decrypt is deleted from the drive
download_file_Purge(t, current_files) ==
    LET user == task[t].public_key
        filename == task[t].filename
        file_url == FirstMatch(current_files, LookupSuffix(user, filename))
    IN  /\ task[t].pc = "body" /\ task[t].op = "download"
        /\ current_files \in Listings(store)
        /\ IF file_url = NoStr
           THEN /\ event' = Ev(t, "download", "body", 404, "File not found",
                               "NotFound", task[t].token, user, filename)
                /\ UNCHANGED <<store, uploader>>
           ELSE LET encrypted_data == store[file_url]
                    nonce == Prefix(encrypted_data, NonceLen)
                    encrypted_content == Suffix(encrypted_data, NonceLen)
                    decrypted_data == aes_decrypt(KEY, nonce, encrypted_content)
                IN  IF ~decrypted_data.ok
                    THEN /\ event' = [Unhandled(t, "download", "body",
                                                "DecryptionFailure", task[t].token,
                                                user, filename)
                                        EXCEPT !.target = file_url]
                         /\ store' = Remove(store, file_url)
                         /\ uploader' = Remove(uploader, file_url)
                    ELSE /\ event' = [Ev(t, "download", "body", 200,
                                         "application/octet-stream", "ok",
                                         task[t].token, user, filename)
                                        EXCEPT !.content = decrypted_data.data,
                                               !.target = file_url]
                         /\ UNCHANGED <<store, uploader>>
        /\ task' = [task EXCEPT ![t] = Idle]
        /\ UNCHANGED <<users_collection, files, KEY, now, issued, ledger>>

\* current_files is what shadow_drive_client.list_files returned
download_file(t, current_files) ==
    LET user == task[t].public_key
        filename == task[t].filename
        file_url == FirstMatch(current_files, LookupSuffix(user, filename))
    IN  /\ task[t].pc = "body" /\ task[t].op = "download"
        /\ current_files \in Listings(store)
        /\ IF file_url = NoStr
           THEN event' = Ev(t, "download", "body", 404, "File not found",
                            "NotFound", task[t].token, user, filename)
           ELSE LET encrypted_data == store[file_url]
                    nonce == Prefix(encrypted_data, NonceLen)
                    encrypted_content == Suffix(encrypted_data, NonceLen)
                    decrypted_data == aes_decrypt(KEY, nonce, encrypted_content)
                IN  IF ~decrypted_data.ok
                    THEN event' = [Unhandled(t, "download", "body",
                                             "DecryptionFailure", task[t].token,
                                             user, filename)
                                     EXCEPT !.target = file_url]
                    ELSE event' = [Ev(t, "download", "body", 200,
                                      "application/octet-stream", "ok",
                                      task[t].token, user, filename)
                                     EXCEPT !.content = decrypted_data.data,
                                            !.target = file_url]
        /\ task' = [task EXCEPT ![t] = Idle]
        /\ UNCHANGED <<users_collection, store, uploader, files, KEY, now,
                       issued, ledger>>

------------------------------------------------------------------------------
(* DELETE /delete/{filename} *)

delete_file(t, current_files) ==
    LET user == task[t].public_key
        filename == task[t].filename
        file_url == FirstMatch(current_files, LookupSuffix(user, filename))
    IN  /\ task[t].pc = "body" /\ task[t].op = "delete"
        /\ current_files \in Listings(store)
        /\ IF file_url = NoStr
           THEN /\ event' = Ev(t, "delete", "body", 404, "File not found",
                               "NotFound", task[t].token, user, filename)
                /\ UNCHANGED <<store, uploader, ledger>>
           ELSE /\ store' = Remove(store, file_url)
                /\ uploader' = Remove(uploader, file_url)
                /\ ledger' = Put(ledger, <<user, filename>>,
                                 [state |-> "deleted", contents |-> NoStr,
                                  key |-> KEY, rewritten |-> FALSE])
                /\ event' = [Ev(t, "delete", "body", 200, "deleted successfully",
                                "ok", task[t].token, user, filename)
                               EXCEPT !.target = file_url]
        /\ task' = [task EXCEPT ![t] = Idle]
        /\ UNCHANGED <<users_collection, files, KEY, now, issued>>

------------------------------------------------------------------------------
(* GET /list_files *)

list_files(t) ==
    LET user == task[t].public_key
        all_files == DOMAIN store
    IN  /\ task[t].pc = "body" /\ task[t].op = "list"
        /\ event' = [Ev(t, "list", "body", 200, "files", "ok", task[t].token,
                        user, NoStr)
                       EXCEPT !.listed = UserFiles(all_files, user)]
        /\ task' = [task EXCEPT ![t] = Idle]
        /\ UNCHANGED <<users_collection, store, uploader, files, KEY, now,
                       issued, ledger>>

------------------------------------------------------------------------------
(* Environment *)

\* time passes
Tick(t) ==
    /\ t \in ClockValues /\ t > now
    /\ now' = t
    /\ event' = NoEvent
    /\ UNCHANGED <<users_collection, store, uploader, files, KEY, issued, task,
                   ledger>>

\* the process is started again: line 20 draws a new key, requests in flight die
Restart ==
    /\ KEY <= MaxRestarts
    /\ KEY' = KEY + 1
    /\ task' = [t \in Tasks |-> Idle]
    /\ event' = NoEvent
    /\ UNCHANGED <<users_collection, store, uploader, files, now, issued, ledger>>

\* the users collection is lost outside this program
DropUsers ==
    /\ \E id \in Identities : users_collection[id] > 0
    /\ users_collection' = [id \in Identities |-> 0]
    /\ event' = NoEvent
    /\ UNCHANGED <<store, uploader, files, KEY, now, issued, task, ledger>>

\* what this program writes to the drive for a payload
Written(key, contents) == {n \o aes_encrypt(key, n, contents) : n \in Nonces}

\* the ways a stored blob is changed outside this program
Alterations == {"truncate", "nonce", "cipher", "tag"}

Altered(blob, how) ==
    CASE how = "truncate" -> Prefix(blob, NonceLen - 1)
      [] how = "nonce" -> [blob EXCEPT ![1] = @ + 1]
      [] how = "cipher" -> [blob EXCEPT ![NonceLen + 1] =
                              [@ EXCEPT ![5] = (@ % 2) + 1]]
      [] how = "tag" -> [blob EXCEPT ![Len(blob)] = [@ EXCEPT ![2] = @ + 1]]

\* a blob as this program wrote it is altered on the drive
Tamper(f, how) ==
    /\ f \in DOMAIN store
    /\ \E k \in 1..(MaxRestarts + 1) : store[f] \in Written(k, uploader[f].contents)
    /\ how \in Alterations
    /\ store' = [store EXCEPT ![f] = Altered(@, how)]
    /\ event' = NoEvent
    /\ UNCHANGED <<users_collection, uploader, files, KEY, now, issued, task,
                   ledger>>

------------------------------------------------------------------------------
(* Credentials a client may present *)

Garbage == [NoToken EXCEPT !.present = TRUE]
WrongSig == Token(IdA, 2 * JWT_EXPIRATION_MINUTES * 60, "other")
\* signed with the secret and not expired, but without a "sub" claim
NoSub == [Token(NoStr, 2 * JWT_EXPIRATION_MINUTES * 60, JWT_SECRET)
            EXCEPT !.has_sub = FALSE]
Forged == {NoToken, Garbage, WrongSig}

IssuedTokens == {i.token : i \in issued}

------------------------------------------------------------------------------
(* Specifications.  Each draws the requests from the inputs its claims are  *)
(* about; the handlers are the same in all of them.                         *)

\* a request of any kind with the given credential and arguments
Request(t, tokens, filenames, payloads) ==
    \E op \in Protected, token \in tokens, filename \in filenames,
       contents \in payloads :
        get_current_user(t, op, token,
                         IF op = "list" THEN NoStr ELSE filename,
                         IF op = "upload" THEN contents ELSE NoStr)

\* the storage gateway serving one request at a time in one process lifetime,
\* the drive always up
Next ==
    \/ \E id \in Pubkeys : LoginFind(1, id)
    \/ LoginInsert(1)
    \/ Request(1, IssuedTokens, Filenames, Payloads)
    \/ \E nonce \in Nonces : upload_file(1, nonce, TRUE)
    \/ \E l \in Listings(store) : download_file(1, l)
    \/ \E l \in Listings(store) : delete_file(1, l)
    \/ list_files(1)

Spec == Init /\ [][Next]_vars

\* sessions: any identity logs in, within the first instants sampled; requests
\* come with issued and with made-up credentials while the clock runs
NextAuth ==
    \/ /\ now <= MaxSkew /\ Cardinality(issued) < MaxSessions
       /\ \E id \in Identities : LoginFind(1, id)
    \/ LoginInsert(1)
    \/ Request(1, IssuedTokens \cup Forged, {NameX}, {<<1>>})
    \/ \E nonce \in Nonces : upload_file(1, nonce, TRUE)
    \/ \E l \in Listings(store) : download_file(1, l)
    \/ \E l \in Listings(store) : delete_file(1, l)
    \/ list_files(1)
    \/ \E t \in ClockValues : Tick(t)

SpecAuth == Init /\ [][NextAuth]_vars

\* logins served concurrently
NextLogin ==
    \/ \E t \in Tasks, id \in Identities : LoginFind(t, id)
    \/ \E t \in Tasks : LoginInsert(t)
    \/ \E t \in ClockValues : Tick(t)

SpecLogin == Init /\ [][NextLogin]_vars

\* sessions while the users collection can be lost
NextEnv ==
    \/ \E id \in Identities : LoginFind(1, id)
    \/ LoginInsert(1)
    \/ Request(1, IssuedTokens \cup Forged, {NameX}, {<<1>>})
    \/ \E nonce \in Nonces : upload_file(1, nonce, TRUE)
    \/ \E l \in Listings(store) : download_file(1, l)
    \/ \E l \in Listings(store) : delete_file(1, l)
    \/ list_files(1)
    \/ DropUsers

SpecEnv == Init /\ [][NextEnv]_vars

\* one identity, one file, requests served concurrently, the drive failing at
\* will, the process restarting
NextFail ==
    \/ \E t \in Tasks : LoginFind(t, IdA)
    \/ \E t \in Tasks : LoginInsert(t)
    \/ \E t \in Tasks : Request(t, IssuedTokens, {NameX}, {<<1>>})
    \/ \E t \in Tasks, nonce \in Nonces, stored \in BOOLEAN :
          upload_file(t, nonce, stored)
    \/ \E t \in Tasks, l \in Listings(store) : download_file(t, l)
    \/ \E t \in Tasks, l \in Listings(store) : delete_file(t, l)
    \/ \E t \in Tasks : list_files(t)
    \/ Restart

SpecFail == Init /\ [][NextFail]_vars

\* one identity's session running out while every kind of bad token is presented
NextVerify ==
    \/ /\ now <= MaxSkew /\ Cardinality(issued) < MaxSessions
       /\ LoginFind(1, IdA)
    \/ LoginInsert(1)
    \/ Request(1, IssuedTokens \cup Forged \cup {NoSub}, {NameX}, {<<1>>})
    \/ \E nonce \in Nonces : upload_file(1, nonce, TRUE)
    \/ \E l \in Listings(store) : download_file(1, l)
    \/ \E l \in Listings(store) : delete_file(1, l)
    \/ list_files(1)
    \/ \E t \in ClockValues : Tick(t)

SpecVerify == Init /\ [][NextVerify]_vars

\* one identity, one file, two payloads, requests served concurrently, the
\* drive up, one process lifetime
NextRace ==
    \/ \E t \in Tasks : LoginFind(t, IdA)
    \/ \E t \in Tasks : LoginInsert(t)
    \/ \E t \in Tasks : Request(t, IssuedTokens, {NameX}, Payloads)
    \/ \E t \in Tasks, nonce \in Nonces : upload_file(t, nonce, TRUE)
    \/ \E t \in Tasks, l \in Listings(store) : download_file(t, l)
    \/ \E t \in Tasks, l \in Listings(store) : delete_file(t, l)
    \/ \E t \in Tasks : list_files(t)

SpecRace == Init /\ [][NextRace]_vars

\* two authenticated uploads in flight, for any two of the enumerated
\* (identity, filename) pairs
Uploading == {t \in Tasks : t <= 2}

InitKey ==
    \E request \in [Uploading -> Owners \X Names] :
        LET owners == {request[t][1] : t \in Uploading}
        IN  /\ users_collection = [id \in Owners |-> IF id \in owners THEN 1 ELSE 0]
            /\ store = Empty
            /\ uploader = Empty
            /\ files = Empty
            /\ KEY = 1
            /\ now = 0
            /\ issued = {[token |-> create_access_token(id, 0), at |-> 0] :
                            id \in owners}
            /\ task = [t \in Tasks |->
                         IF t \in Uploading
                         THEN [pc |-> "body", op |-> "upload",
                               token |-> create_access_token(request[t][1], 0),
                               public_key |-> request[t][1],
                               filename |-> request[t][2], contents |-> <<1>>]
                         ELSE Idle]
            /\ event = NoEvent
            /\ ledger = Empty

NextKey == \E t \in Tasks, nonce \in Nonces : upload_file(t, nonce, TRUE)

SpecKey == InitKey /\ [][NextKey]_vars

\* one identity, one file, the stored blob altered on the drive, the process
\* restarting
NextTamper ==
    \/ LoginFind(1, IdA)
    \/ LoginInsert(1)
    \/ Request(1, IssuedTokens, {NameX}, Payloads)
    \/ \E nonce \in Nonces : upload_file(1, nonce, TRUE)
    \/ \E l \in Listings(store) : download_file(1, l)
    \/ \E l \in Listings(store) : delete_file(1, l)
    \/ list_files(1)
    \/ \E f \in DOMAIN store, how \in Alterations : Tamper(f, how)
    \/ Restart

SpecTamper == Init /\ [][NextTamper]_vars

------------------------------------------------------------------------------
(* Claims.  event' is the response of the step being taken; the unprimed    *)
(* history variables are those of the moment the request was served.        *)

OwnerOf(f) == IF f \in DOMAIN uploader THEN uploader[f].public_key ELSE NoStr

Served(e, ops) == e.step = "body" /\ e.op \in ops

\* C1: isolation.  A file that List or Download hands to an identity, or that
\* Delete removes for it, was uploaded by that identity.
C1_Isolation ==
    [][/\ (Served(event', {"list"}) /\ event'.status = 200)
            => \A f \in event'.listed : OwnerOf(f) = event'.public_key
       /\ (Served(event', {"download", "delete"}) /\ event'.status = 200)
            => OwnerOf(event'.target) = event'.public_key]_vars

LedgerOf(pk, filename) ==
    IF <<pk, filename>> \in DOMAIN ledger
    THEN ledger[<<pk, filename>>]
    ELSE [state |-> None, contents |-> NoStr, key |-> 0, rewritten |-> FALSE]

\* C2: round trip.  While (I, n) was uploaded in this process lifetime and
\* neither uploaded again nor deleted since, Download(I, n) returns the payload
\* of that upload.
C2_RoundTrip ==
    [][LET was == LedgerOf(event'.public_key, event'.filename)
       IN  (Served(event', {"download"}) /\ was.state = "uploaded" /\ was.key = KEY)
               => (event'.status = 200 /\ event'.content = was.contents)]_vars

\* C3: after a successful Delete(I, n), Download(I, n) and Delete(I, n) answer
\* NotFound until I uploads n again.
C3_DeletedStaysGone ==
    [][(/\ Served(event', {"download", "delete"})
        /\ LedgerOf(event'.public_key, event'.filename).state = "deleted")
            => event'.status = 404]_vars

\* the tokens login has handed out whose 30 minutes, counted from the start of
\* the second of issue, are not over
ValidTokens ==
    {i.token : i \in {j \in issued :
                        now < Timegm(j.at) * TicksPerSecond + ExpiryTicks}}

Authenticating(e) == e.step = "auth" /\ e.op \in Protected

\* C4 as stated: a token issued at T is rejected with Unauthorized exactly from
\* T + 30 minutes on.
C4_ExpiryAtThirtyMinutes ==
    \A i \in issued :
        (Authenticating(event) /\ event.token = i.token)
            => (event.status = 401 <=> now >= i.at + ExpiryTicks)

\* C4 amended: a token issued at T is rejected with Unauthorized exactly from
\* 30 minutes after the start of the second of T on.
C4_ExpiryAtWholeSecond ==
    \A i \in issued :
        (Authenticating(event) /\ event.token = i.token)
            => (event.status = 401
                    <=> now >= Timegm(i.at) * TicksPerSecond + ExpiryTicks)

\* a token issued within a second is refused less than 30 minutes later
C4_Witness ==
    \E i \in issued :
        /\ i.at % TicksPerSecond # 0
        /\ Authenticating(event) /\ event.token = i.token
        /\ event.status = 401
        /\ now < i.at + ExpiryTicks

\* C5: a request without a valid token is answered Unauthorized by the
\* authentication step, which touches neither the drive nor the working
\* directory and starts no handler; handlers only run for issued tokens.
C5_AuthFirst ==
    [][/\ (Authenticating(event') /\ event'.token \notin ValidTokens)
            => /\ event'.status = 401 /\ event'.category = "Unauthorized"
               /\ store' = store /\ files' = files
               /\ task'[event'.task] = Idle
       /\ Served(event', Protected) => event'.token \in IssuedTokens]_vars

\* Download with an expired token of a file that exists: Unauthorized
C5_Witness ==
    /\ Authenticating(event) /\ event.op = "download"
    /\ event.token \in IssuedTokens /\ event.status = 401
    /\ \E f \in DOMAIN store :
           EndsWith(f, LookupSuffix(event.token.sub, event.filename))

\* C6: the directory holds at most one entry per identity.
C6_OneEntryPerIdentity ==
    \A id \in Identities : users_collection[id] <= 1

\* C7: a token from Login(I), presented before it expires, passes the
\* authentication step as identity I.
C7_LoginTokenAuthenticates ==
    (Authenticating(event) /\ event.token \in ValidTokens)
        => /\ event.status = 0
           /\ task[event.task].pc = "body"
           /\ task[event.task].public_key = event.token.sub

\* C8: a valid token whose subject is not in the directory is answered
\* "User not found", not Unauthorized, and nothing is stored or started.
C8_UserNotFound ==
    [][(/\ Authenticating(event') /\ event'.token \in ValidTokens
        /\ users_collection[event'.token.sub] = 0)
            => /\ event'.status = 404 /\ event'.detail = "User not found"
               /\ event'.category = "UserNotFound"
               /\ event'.status # 401
               /\ store' = store /\ files' = files
               /\ task'[event'.task] = Idle]_vars

C8_Witness ==
    /\ Authenticating(event) /\ event.token \in ValidTokens
    /\ users_collection[event.token.sub] = 0
    /\ event.status = 404

FailureCategories ==
    {"Unauthorized", "UserNotFound", "NotFound", "StorageUnavailable",
     "DecryptionFailure", "ValidationFailure"}

\* C9: two responses that report different failure categories carry different
\* statuses (stated for two responses sent one after the other).
C9_DistinctStatuses ==
    [][(/\ event.category \in FailureCategories
        /\ event'.category \in FailureCategories
        /\ event.category # event'.category)
            => event.status # event'.status]_vars

\* C10: an upload whose drive write fails is not answered with success and
\* leaves the drive as it was; an upload answered with success is on the drive.
C10_NoPartialSuccess ==
    [][Served(event', {"upload"})
            => IF event'.category = "StorageUnavailable"
               THEN /\ event'.status # 200 /\ event'.detail # "url"
                    /\ store' = store
               ELSE /\ event'.status = 200
                    /\ event'.target \in DOMAIN store']_vars

\* a failed write while the drive holds an object
C10_Witness ==
    /\ Served(event, {"upload"}) /\ event.category = "StorageUnavailable"
    /\ event.status = 500
    /\ store # Empty

\* the stored blob is what this process lifetime wrote for the upload
Intact(f) == store[f] \in Written(KEY, uploader[f].contents)

\* C11: a download returns the plaintext that was uploaded into the object it
\* reads, and when that object was altered, cut short or encrypted in an
\* earlier process lifetime it fails in decryption and returns no bytes.
C11_NoWrongPlaintext ==
    [][(Served(event', {"download"}) /\ event'.target # NoStr)
            => /\ event'.status = 200
                    => event'.content = uploader[event'.target].contents
               /\ ~Intact(event'.target)
                    => /\ event'.status = 500
                       /\ event'.category = "DecryptionFailure"
                       /\ event'.content = NoStr]_vars

\* a download of a blob whose ciphertext was changed, in the lifetime that
\* wrote it
C11_Witness ==
    /\ Served(event, {"download"}) /\ event.category = "DecryptionFailure"
    /\ event.target \in DOMAIN store
    /\ Len(store[event.target]) > NonceLen
    /\ store[event.target][NonceLen + 1][2] = KEY
    /\ store[event.target][Len(store[event.target])][2] = KEY

\* C12: scratch cleanup.  Once an Upload request has ended, whatever its
\* outcome, the local file it wrote under the encrypted filename is gone.
C12_ScratchCleanup ==
    [][Served(event', {"upload"})
          => encrypted_filename(event'.public_key, event'.filename)
                 \notin DOMAIN files']_vars

\* C13: last writer wins.  When (I, n) was uploaded and then uploaded again,
\* and nothing changed (I, n) since, Download(I, n) returns the payload of the
\* later upload.
C13_LastWriterWins ==
    [][LET was == LedgerOf(event'.public_key, event'.filename)
       IN  (/\ Served(event', {"download"})
            /\ was.state = "uploaded" /\ was.rewritten /\ was.key = KEY)
               => (event'.status = 200 /\ event'.content = was.contents)]_vars

\* C14: the users collection only grows.  No step takes an entry away, and a
\* step that changes the collection is a step of login.
C14_DirectoryOnlyGrows ==
    [][/\ \A id \in Identities : users_collection'[id] >= users_collection[id]
       /\ users_collection' # users_collection => event'.op = "login"]_vars

C14_Witness ==
    /\ Served(event, {"upload", "delete"}) /\ event.status = 200
    /\ users_collection[event.public_key] > 0

\* the four ways a presented token fails verification at time t
BadSignature(token) == token.wellformed /\ token.sig # JWT_SECRET
Unparseable(token) == ~token.wellformed
Expired(token, t) ==
    token.wellformed /\ token.sig = JWT_SECRET /\ JwtExpired(token.exp, t)
NoSubject(token, t) ==
    /\ token.wellformed /\ token.sig = JWT_SECRET
    /\ ~JwtExpired(token.exp, t) /\ ~token.has_sub

\* C15: a presented token with a wrong signature, one that does not parse, an
\* expired one and one without subject are all answered with status 401 and the
\* same detail.
C15_OneUnauthorizedOutcome ==
    (/\ Authenticating(event) /\ event.token.present
     /\ \/ BadSignature(event.token) \/ Unparseable(event.token)
        \/ Expired(event.token, now) \/ NoSubject(event.token, now))
        => /\ event.status = 401
           /\ event.detail = "Invalid authentication credentials"
           /\ event.category = "Unauthorized"

C15_Witness ==
    /\ Authenticating(event) /\ NoSubject(event.token, now)
    /\ event.status = 401
    /\ \E i \in issued : Expired(i.token, now)

\* C16: a successful Delete(I, n) removes exactly the object uploaded as
\* (I, n) and leaves every other object as it was; a Delete answered NotFound
\* leaves the drive as it was.
C16_DeleteFrame ==
    [][Served(event', {"delete"})
          => IF event'.status = 200
             THEN /\ event'.target \in DOMAIN uploader
                  /\ uploader[event'.target].public_key = event'.public_key
                  /\ uploader[event'.target].filename = event'.filename
                  /\ store' = Remove(store, event'.target)
             ELSE store' = store]_vars

\* C17: a Download or List request, from its authentication to its response
\* and whatever the outcome, leaves the drive, the users collection and the
\* working directory as they were.
C17_ReadOnly ==
    [][event'.op \in {"download", "list"}
          => /\ store' = store
             /\ users_collection' = users_collection
             /\ files' = files]_vars

C17_Witness ==
    /\ Served(event, {"download"}) /\ event.status = 500
    /\ event.target \in DOMAIN store
    /\ files # Empty

\* C18: in every state, List(I) holds the key of every (I, n) whose last
\* change by I was an upload, and every key that Download(I, n) or
\* Delete(I, n) would pick, for any listing order, is in List(I).
C18_ListComplete ==
    /\ \A k \in DOMAIN ledger :
          ledger[k].state = "uploaded"
              => encrypted_filename(k[1], k[2]) \in UserFiles(DOMAIN store, k[1])
    /\ \A id \in Pubkeys, n \in Filenames, l \in Listings(store) :
          LET file_url == FirstMatch(l, LookupSuffix(id, n))
          IN  file_url # NoStr => file_url \in UserFiles(DOMAIN store, id)

\* C19: an Upload served while other Uploads of the same (owner, filename) are
\* in flight succeeds and stores the encryption of its own payload.
C19_OwnPayloadSent ==
    [][Served(event', {"upload"})
          => /\ event'.status = 200
             /\ event'.target \in DOMAIN store'
             /\ store'[event'.target]
                    \in Written(KEY, task[event'.task].contents)]_vars

C19_Witness ==
    /\ Served(event, {"upload"}) /\ event.status = 200
    /\ \E u \in Tasks :
          /\ u # event.task
          /\ task[u].pc = "body" /\ task[u].op = "upload"
          /\ task[u].public_key = event.public_key
          /\ task[u].filename = event.filename
          /\ task[u].contents # uploader[event.target].contents

\* C20: the key of an upload is "encrypted_", the owner, "_" and the filename,
\* and uploads of distinct (owner, filename) pairs, the owner without
\* underscore, are stored under distinct keys: each pair's key holds the
\* object uploaded as that pair.
C20_KeyInjective ==
    /\ Served(event, {"upload"})
          => event.target = <<"encrypted", "_">> \o event.public_key \o <<"_">>
                                \o event.filename
    /\ \A k \in DOMAIN ledger :
          LET key == encrypted_filename(k[1], k[2])
          IN  /\ key \in DOMAIN store
              /\ uploader[key].public_key = k[1]
              /\ uploader[key].filename = k[2]
    /\ Cardinality(DOMAIN store) = Cardinality(DOMAIN ledger)

C20_Witness ==
    \E k1, k2 \in DOMAIN ledger :
        /\ k1[1] # k2[1]
        /\ Contains(k1[2], <<"_">>) /\ Contains(k1[2], k2[1])
        /\ Cardinality(DOMAIN store) = Cardinality(Uploading)

====
